---- MODULE Spec2Model ----
(***************************************************************************)
(* Run orchestration (api/app/routers/runs.py), the execution sandbox      *)
(* (api/app/run/runner_local.py), the event validator                      *)
(* (api/app/schemas/events.py) and the in-memory event bus                 *)
(* (api/app/runs/manager.py) of one run.                                   *)
(*                                                                         *)
(* Spec    : one run, from start_run to the end of the task _run_plan,     *)
(*           with the sandbox as a worker thread and store calls that may  *)
(*           raise.                                                        *)
(* BusSpec : the event bus under its clients: one producer that registers, *)
(*           publishes and closes once (the protocol Spec is shown to      *)
(*           follow) and the subscribers of stream_run_events.             *)
(* TruncSpec : _truncate_if_needed applied once to a text and a ceiling.   *)
(***************************************************************************)
EXTENDS Integers, Sequences, FiniteSets, TLC

\* ------------------------------------------------------------------ bounds
MaxUnits == 2      \* cells of the notebook
MaxFaults == 1     \* store calls that raise during one run
MaxSubs == 2       \* subscribers of stream_run_events (BusSpec)
MaxEvents == 3     \* events the producer publishes (BusSpec)
MaxRuns == 2       \* runs executing at the same time (ConcSpec)
MaxLines == 3      \* lines the units append to events.jsonl (FlushSpec)

\* ------------------------------------------------- constants of runs.py
RUN_STATUS_PENDING == "pending"
RUN_STATUS_RUNNING == "running"
RUN_STATUS_COMPLETED == "succeeded"
RUN_STATUS_FAILED == "failed"

RUN_STAGE_START == "run_start"
RUN_STAGE_COMPLETE == "run_complete"
RUN_STAGE_ERROR == "run_error"

RUN_ERROR_TIMEOUT == "E_RUN_TIMEOUT"
RUN_ERROR_PLAN_MISSING == "E_PLAN_NOT_FOUND"
RUN_ERROR_FAILED == "E_RUN_FAILED"
RUN_ERROR_GPU_REQUESTED == "E_GPU_REQUESTED"

RUN_ARTIFACT_METRICS == "metrics.json"
RUN_ARTIFACT_EVENTS == "events.jsonl"
RUN_ARTIFACT_LOG == "logs.txt"

\* seed = 42 when the plan configures none
DefaultSeed == 42

\* minutes; the ceiling of the deadline and its value without a budget
DEFAULT_TIMEOUT_MINUTES == 25

\* --------------------------------------------- constants of runner_local
MAX_LOGS_SIZE == 2 * 1024 * 1024
MAX_EVENTS_SIZE == 5 * 1024 * 1024

\* ------------------------------------------------------------------ events
\* An event {event, data}: text is the payload's stage / message / metric,
\* code the error code, num the percent / value / any further key.
Ev(kind, text, code, num) ==
    [event |-> kind, text |-> text, code |-> code, num |-> num]

\* a required payload key that is absent
Missing == "<missing>"

\* the end-of-stream sentinel close() enqueues (Python None)
None == Ev("<None>", "", "", 0)

EVENT_VALIDATORS ==
    {"stage_update", "progress", "log_line", "metric_update", "sample_pred", "error"}

\* model(**payload) succeeds: required keys present, percent within 0..100
PayloadValid(e) ==
    CASE e.event \notin EVENT_VALIDATORS -> TRUE
      [] e.event = "sample_pred" -> TRUE
      [] e.event = "progress" -> e.num >= 0 /\ e.num <= 100
      [] OTHER -> e.text # Missing

\* model(**payload).model_dump(): the keys of the payload model only;
\* an unknown kind is returned unchanged
validate_event(e) ==
    IF e.event \notin EVENT_VALIDATORS THEN e
    ELSE CASE e.event = "progress" -> Ev(e.event, e.text, "", e.num)
           [] e.event = "metric_update" -> Ev(e.event, e.text, "", e.num)
           [] e.event = "error" -> Ev(e.event, e.text, e.code, 0)
           [] OTHER -> Ev(e.event, e.text, "", 0)

\* number of leading events of raws that validate: _emit raises on the next
RECURSIVE ValidPrefixLen(_)
ValidPrefixLen(raws) ==
    IF raws = <<>> THEN 0
    ELSE IF PayloadValid(Head(raws)) THEN 1 + ValidPrefixLen(Tail(raws))
    ELSE 0

Raises(raws) == ValidPrefixLen(raws) < Len(raws)

\* the validated events of raws that are emitted before _emit raises
Emitted(raws) ==
    [i \in 1..ValidPrefixLen(raws) |-> validate_event(raws[i])]

Without_Reversed(s, drop, i) == [k \in 1..Len(s) |-> s[Len(s) + 1 - k]]

\* the subsequence of s at the indices not in drop
RECURSIVE Without(_, _, _)
Without(s, drop, i) ==
    IF i > Len(s) THEN <<>>
    ELSE (IF i \in drop THEN <<>> ELSE <<s[i]>>) \o Without(s, drop, i + 1)

LogMessages(evs) ==
    LET lines == SelectSeq(evs, LAMBDA e : e.event = "log_line")
    IN [i \in 1..Len(lines) |-> lines[i].text]

\* ------------------------------------------------------- texts and bytes
\* A text is a sequence of runs: the first n characters of c repeated, each
\* of w bytes in UTF-8.
Run(c, w, n) == [c |-> c, w |-> w, n |-> n]

Newline == Run("\n", 1, 1)

TRUNCATION_MARKER == << Run("\n__TRUNCATED__\n", 1, Len("\n__TRUNCATED__\n")) >>

\* a line of MAX_LOGS_SIZE characters x, which a cell may print
BulkLine == "x * MAX_LOGS_SIZE"

\* len(line.encode("utf-8")) of a line of the model (ASCII)
Utf8Len(line) == IF line = BulkLine THEN MAX_LOGS_SIZE ELSE Len(line)

\* len(text.encode("utf-8"))
RECURSIVE ByteLen(_)
ByteLen(text) ==
    IF text = <<>> THEN 0
    ELSE Head(text).w * Head(text).n + ByteLen(Tail(text))

\* "\n".join(lines), with a final "\n" unless there is no line
RECURSIVE JoinLines(_)
JoinLines(lines) ==
    IF lines = <<>> THEN <<>>
    ELSE << Run(Head(lines), 1, Utf8Len(Head(lines))), Newline >>
         \o JoinLines(Tail(lines))

\* the end of the slice bytes[:k] of len bytes: a negative k counts from
\* the end
SliceEnd(len, k) ==
    IF k >= 0 THEN (IF k < len THEN k ELSE len)
    ELSE (IF len + k > 0 THEN len + k ELSE 0)

\* text.encode("utf-8")[:k].decode("utf-8", errors="ignore") for k >= 0: the
\* characters that lie wholly within the first k bytes
RECURSIVE DecodePrefix(_, _)
DecodePrefix(text, k) ==
    IF text = <<>> \/ k <= 0 THEN <<>>
    ELSE LET r == Head(text)
         IN IF r.w * r.n <= k
            THEN << r >> \o DecodePrefix(Tail(text), k - r.w * r.n)
            ELSE IF k \div r.w > 0 THEN << [r EXCEPT !.n = k \div r.w] >>
            ELSE <<>>

NeedsTruncation_AtCap(text, max_size) == ByteLen(text) >= max_size

\* the guard of _truncate_if_needed
NeedsTruncation(text, max_size) == ByteLen(text) > max_size

\* the text _truncate_if_needed returns
truncate_if_needed(text, max_size) ==
    IF ~NeedsTruncation(text, max_size) THEN text
    ELSE DecodePrefix(text, SliceEnd(ByteLen(text),
                                     max_size - ByteLen(TRUNCATION_MARKER)))
         \o TRUNCATION_MARKER

\* the events _truncate_if_needed emits
TruncationWarning(text, max_size, label) ==
    IF ~NeedsTruncation(text, max_size) THEN <<>>
    ELSE << Ev("log_line",
               "Warning: " \o label \o " exceeded " \o ToString(max_size)
                   \o " bytes and was truncated", "", 0) >>

\* ------------------------------------------------------------------- state
VARIABLES
    plan_found,        \* db.get_plan(plan_id) returns a record
    plan_valid,        \* PlanDocumentV11.model_validate(plan_json) succeeds
    cuda_visible,      \* os.environ["CUDA_VISIBLE_DEVICES"] ("" when unset)
    libs,              \* importable numeric libraries
    nUnits,            \* len(nb.cells)
    budget,            \* plan_document.policy.budget_minutes
    pc,                \* position of start_run / _run_plan
    exc,               \* exception caught by _run_plan's try
    excText,           \* str(exc)
    escaped,           \* an exception left an except block of _run_plan
    faults,            \* store calls that have raised
    statusLog,         \* status values written to the run record, in order
    run_events,        \* rows of the durable event log
    run_series,        \* rows written with db.insert_run_series
    stored,            \* keys written with storage.store_text, in order
    logsBlob,          \* text of the blob runs/<id>/logs.txt
    captured_logs,     \* captured_logs of _run_plan
    history,           \* RunStreamManager._history[run_id]
    queues,            \* every asyncio.Queue created for the run id
    curQueue,          \* index of RunStreamManager._queues[run_id], 0 if absent
    closes,            \* calls of manager.close(run_id)
    sbpc,              \* position of _execute_sync in the worker thread
    cellIndex,         \* index of the loop over nb.cells
    logs,              \* logs of _execute_sync
    eventsFile,        \* lines of events.jsonl in the working directory
    processed_events,  \* processed_events of _execute_sync
    metricsFile,       \* metrics.json exists in the working directory
    result,            \* NotebookRunResult returned by execute_notebook
    needed,            \* minutes the cells started so far need in all
    subs,              \* subscribers of stream_run_events
    arg_text,          \* TruncSpec: the text given to _truncate_if_needed
    arg_max_size,      \* TruncSpec: the ceiling given to it
    ret_text,          \* TruncSpec: the text it returned
    response,          \* what start_run answered
    conc,              \* ConcSpec: each run's sandbox call: position, seed, directory
    rng,               \* ConcSpec: seed the process's random generator was last given
    tmpdirs            \* ConcSpec: temporary directories created so far

inputVars == <<plan_found, plan_valid, libs, nUnits, budget>>
taskVars == <<pc, exc, excText, escaped>>
dbVars == <<statusLog, run_events>>
busVars == <<history, queues, curQueue, closes>>
sbVars == <<sbpc, cellIndex, logs, eventsFile, processed_events, metricsFile, result>>
truncVars == <<arg_text, arg_max_size, ret_text>>
concVars == <<conc, rng, tmpdirs>>
vars == <<inputVars, truncVars, concVars, run_series, response, logsBlob, needed,
          cuda_visible,
          taskVars, faults, dbVars, stored, captured_logs, busVars, sbVars, subs>>

Subs == 1..MaxSubs

Runs == 1..MaxRuns

\* config.seed of the plans
SeedChoices == {DefaultSeed, DefaultSeed + 1, DefaultSeed + 2}

IdleRun == [pc |-> "idle", seed |-> DefaultSeed, dir |-> 0, calls |-> 0, cell |-> 0]

NoResult == [metrics_text |-> FALSE, events_text |-> <<>>, logs_text |-> <<>>]

IdleSub == [pc |-> "idle", snap |-> <<>>, pos |-> 0, q |-> 0,
            received |-> <<>>, late |-> FALSE]

Status == IF statusLog = <<>> THEN "none" ELSE statusLog[Len(statusLog)]

Ended == pc \in {"done", "crashed"}

\* ------------------------------------------------------- RunStreamManager
\* register: a queue is created only when _queues has none for the run id
RegisterQueues == IF curQueue = 0 THEN Append(queues, <<>>) ELSE queues
RegisterCur == IF curQueue = 0 THEN Len(queues) + 1 ELSE curQueue

\* publish: history always grows, the queue only if _queues has one
PublishHistory(h, evs) == h \o evs
PublishQueues(qs, cur, evs) ==
    IF cur = 0 THEN qs ELSE [qs EXCEPT ![cur] = @ \o evs]

\* close: pop the queue and enqueue the sentinel on it
CloseQueues(qs, cur) ==
    IF cur = 0 THEN qs ELSE [qs EXCEPT ![cur] = Append(@, None)]


\* ------------------------------------------------------------------ stores
\* db.update_run(status=...): the row is written unless the call raises
UpdateRun_WritesThenRaises(log, status, ok) == Append(log, status)

UpdateRun(log, status, ok) == IF ok THEN Append(log, status) ELSE log

\* whether one more store call may raise
MayRaise == faults < MaxFaults

\* outcomes of one store call: TRUE returns, FALSE raises
Outcomes == IF MayRaise THEN {TRUE, FALSE} ELSE {TRUE}

\* inserts of db.insert_run_event that raise while raws are emitted
Drops(raws) ==
    {d \in SUBSET (1..ValidPrefixLen(raws)) : Cardinality(d) <= MaxFaults - faults}

\* _emit applied to each of raws in turn, until one fails to validate:
\* captured_logs, manager.publish, db.insert_run_event (a raise is swallowed)
EmitAll(raws, drop) ==
    LET evs == Emitted(raws)
    IN /\ captured_logs' = captured_logs \o LogMessages(evs)
       /\ history' = PublishHistory(history, evs)
       /\ queues' = PublishQueues(queues, curQueue, evs)
       /\ run_events' = run_events \o Without(evs, drop, 1)
       /\ faults' = faults + Cardinality(drop)

\* ------------------------------------------------------------- start_run
HTTP_404_NOT_FOUND == 404
HTTP_202_ACCEPTED == 202

\* start_run has not answered
NoResponse == [status_code |-> 0, body |-> ""]

\* HTTPException(404, detail = {code: E_PLAN_NOT_FOUND, ...})
NotFoundResponse == [status_code |-> HTTP_404_NOT_FOUND, body |-> RUN_ERROR_PLAN_MISSING]

\* {"run_id": run_id} under the route's status_code
AcceptedResponse == [status_code |-> HTTP_202_ACCEPTED, body |-> "run_id"]

\* db.insert_run raised: the exception leaves start_run, nothing is returned
RaisedResponse == [status_code |-> 0, body |-> "raised"]

StartRun_InsertsBeforeLookup ==
    /\ pc = "idle"
    /\ IF ~plan_found
       THEN /\ pc' = "rejected"
            /\ response' = NotFoundResponse
            /\ statusLog' = Append(statusLog, RUN_STATUS_PENDING)
            /\ UNCHANGED <<queues, curQueue, faults>>
       ELSE \E ok \in Outcomes :
              IF ok
              THEN /\ statusLog' = Append(statusLog, RUN_STATUS_PENDING)
                   /\ queues' = RegisterQueues
                   /\ curQueue' = RegisterCur
                   /\ pc' = "scheduled"
                   /\ response' = AcceptedResponse
                   /\ UNCHANGED faults
              ELSE /\ faults' = faults + 1
                   /\ pc' = "insert_failed"
                   /\ response' = RaisedResponse
                   /\ UNCHANGED <<statusLog, queues, curQueue>>
    /\ UNCHANGED <<inputVars, truncVars, run_series, concVars, logsBlob, needed,
                   cuda_visible, exc, excText, escaped, run_events,
                   stored, captured_logs, history, closes, sbVars, subs>>

\* get_plan, then insert_run(status pending), register, create_task(_run_plan)
\* and the answer; no await in between, so one step of the event loop
StartRun ==
    /\ pc = "idle"
    /\ IF ~plan_found
       THEN /\ pc' = "rejected"
            /\ response' = NotFoundResponse
            /\ UNCHANGED <<statusLog, queues, curQueue, faults>>
       ELSE \E ok \in Outcomes :
              IF ok
              THEN /\ statusLog' = Append(statusLog, RUN_STATUS_PENDING)
                   /\ queues' = RegisterQueues
                   /\ curQueue' = RegisterCur
                   /\ pc' = "scheduled"
                   /\ response' = AcceptedResponse
                   /\ UNCHANGED faults
              ELSE /\ faults' = faults + 1
                   /\ pc' = "insert_failed"
                   /\ response' = RaisedResponse
                   /\ UNCHANGED <<statusLog, queues, curQueue>>
    /\ UNCHANGED <<inputVars, truncVars, run_series, concVars, logsBlob, needed,
                   cuda_visible, exc, excText, escaped, run_events,
                   stored, captured_logs, history, closes, sbVars, subs>>

\* ------------------------------------------------------------- _run_plan
PlanInvalidError == Ev("error", "Plan document invalid", RUN_ERROR_FAILED, 0)

\* register, validate the plan; an invalid plan ends the task here
RunPlanBegin ==
    /\ pc = "scheduled"
    /\ IF plan_valid
       THEN /\ queues' = RegisterQueues
            /\ curQueue' = RegisterCur
            /\ pc' = "mark_running"
            /\ UNCHANGED <<captured_logs, history, run_events, faults, closes>>
       ELSE /\ \E drop \in Drops(<<PlanInvalidError>>) :
                 /\ captured_logs' = captured_logs
                 /\ history' = PublishHistory(history, Emitted(<<PlanInvalidError>>))
                 /\ queues' = CloseQueues(
                        PublishQueues(RegisterQueues, RegisterCur,
                                      Emitted(<<PlanInvalidError>>)),
                        RegisterCur)
                 /\ run_events' = run_events
                        \o Without(Emitted(<<PlanInvalidError>>), drop, 1)
                 /\ faults' = faults + Cardinality(drop)
            /\ curQueue' = 0
            /\ closes' = closes + 1
            /\ pc' = "done"
    /\ UNCHANGED <<inputVars, truncVars, run_series, concVars, response,
                   logsBlob, needed,
                   cuda_visible, exc, excText, escaped, statusLog,
                   stored, sbVars, subs>>

\* db.update_run(status=running); a raise is logged and swallowed
MarkRunning ==
    /\ pc = "mark_running"
    /\ \E ok \in Outcomes :
         /\ statusLog' = UpdateRun(statusLog, RUN_STATUS_RUNNING, ok)
         /\ faults' = IF ok THEN faults ELSE faults + 1
    /\ pc' = "emit_start"
    /\ UNCHANGED <<inputVars, truncVars, run_series, concVars, response,
                   logsBlob, needed,
                   cuda_visible, exc, excText, escaped, run_events,
                   stored, captured_logs, busVars, sbVars, subs>>

\* timeout_minutes of _run_plan: min(budget_minutes or 25, 25)
RunTimeoutMinutes(b) ==
    LET t == IF b = 0 THEN DEFAULT_TIMEOUT_MINUTES ELSE b
    IN IF t < DEFAULT_TIMEOUT_MINUTES THEN t ELSE DEFAULT_TIMEOUT_MINUTES

StartEvents ==
    << Ev("stage_update", RUN_STAGE_START, "", 0), Ev("progress", "", "", 0) >>

EmitStart ==
    /\ pc = "emit_start"
    /\ \E drop \in Drops(StartEvents) : EmitAll(StartEvents, drop)
    /\ pc' = "download"
    /\ UNCHANGED <<inputVars, truncVars, run_series, concVars, response,
                   logsBlob, needed,
                   cuda_visible, exc, excText, escaped, statusLog,
                   stored, curQueue, closes, sbVars, subs>>

\* storage.download(notebook_key), then execute_notebook starts the worker
Download ==
    /\ pc = "download"
    /\ \E ok \in Outcomes :
         IF ok
         THEN /\ pc' = "awaiting"
              /\ sbpc' = "enforce_cpu"
              /\ UNCHANGED <<exc, excText, faults>>
         ELSE /\ pc' = "handler"
              /\ exc' = "Exception"
              /\ excText' = "download failed"
              /\ faults' = faults + 1
              /\ UNCHANGED sbpc
    /\ UNCHANGED <<inputVars, truncVars, run_series, concVars, response,
                   logsBlob, needed,
                   cuda_visible, escaped, dbVars, stored, captured_logs,
                   busVars, cellIndex, logs, eventsFile, processed_events,
                   metricsFile, result, subs>>


\* ---------------------------------------------------------- runner_local
GpuRequested_AlsoMinusOne == cuda_visible # ""

GpuRequested == cuda_visible # "" /\ cuda_visible # "-1"

GpuErrorText ==
    "GPU requested via CUDA_VISIBLE_DEVICES=" \o cuda_visible
        \o ", but CPU-only mode is enforced"

EnvLine == Ev("log_line", "Environment: CPU-only mode", "", 0)

\* _enforce_cpu_only: raise before anything is emitted, or force CPU-only
SbEnforceCpuOnly ==
    /\ pc = "awaiting" /\ sbpc = "enforce_cpu"
    /\ IF GpuRequested
       THEN /\ exc' = "GPURequestedError"
            /\ excText' = GpuErrorText
            /\ pc' = "handler"
            /\ sbpc' = "raised"
            /\ UNCHANGED <<cuda_visible, captured_logs, history, queues,
                           run_events, faults>>
       ELSE /\ cuda_visible' = "-1"
            /\ \E drop \in Drops(<<EnvLine>>) : EmitAll(<<EnvLine>>, drop)
            /\ sbpc' = "seeds"
            /\ UNCHANGED <<pc, exc, excText>>
    /\ UNCHANGED <<inputVars, truncVars, run_series, concVars, response,
                   logsBlob, needed,
                   escaped, statusLog, stored, curQueue, closes,
                   cellIndex, logs, eventsFile, processed_events, metricsFile,
                   result, subs>>

\* the payload key seed is not a key of StageUpdatePayload
SeedEvents ==
    << Ev("stage_update", "seed_check", "", DefaultSeed) >>
    \o (IF "numpy" \in libs THEN << Ev("log_line", "numpy seed set", "", 0) >> ELSE <<>>)
    \o (IF "torch" \in libs THEN << Ev("log_line", "torch seed set", "", 0) >> ELSE <<>>)

\* _setup_deterministic_seeds, then the working directory and the kernel
SbSetupSeeds ==
    /\ pc = "awaiting" /\ sbpc = "seeds"
    /\ \E drop \in Drops(SeedEvents) : EmitAll(SeedEvents, drop)
    /\ sbpc' = "cells"
    /\ cellIndex' = 1
    /\ processed_events' = 0
    /\ UNCHANGED <<inputVars, truncVars, run_series, concVars, response,
                   logsBlob, needed,
                   cuda_visible, taskVars, statusLog, stored, curQueue,
                   closes, logs, eventsFile, metricsFile, result, subs>>

\* execute_notebook: max(1, min(timeout_minutes, 25)), the timeout of the
\* NotebookClient, which nbclient applies to each cell on its own
CellTimeoutMinutes(t) ==
    LET m == IF t < 25 THEN t ELSE 25
    IN IF m > 1 THEN m ELSE 1

\* minutes one cell may need
DurationChoices == {1, 3}

\* what one cell prints, and the error line of a cell that raises
UnitLine(i) == "out " \o ToString(i)
UnitErrorLine(i) == "RuntimeError: boom " \o ToString(i)

\* str(CellExecutionError) of cell i
CellErrorText(i) == "CellExecutionError in cell " \o ToString(i)

\* lines one cell may append to events.jsonl
UnitEventChoices ==
    { <<>>,
      << Ev("metric_update", "accuracy", "", 1) >>,
      << Ev("progress", "", "", 150) >> }

LogLines(lines) == [i \in 1..Len(lines) |-> Ev("log_line", lines[i], "", 0)]

Percent_Remaining(k, total) == ((total - k) * 100) \div total

\* int((k / total) * 100)
Percent(k, total) == (k * 100) \div total

\* _flush_notebook_events: the lines of the file from start_index on
PendingEvents(file, start_index) == SubSeq(file, start_index + 1, Len(file))

\* whether cell index may print the bulk line: the first cell only
BulkChoices(index) == IF index = 1 THEN BOOLEAN ELSE {FALSE}

\* the lines cell index prints: its own line, then the bulk line if big
Printed(index, big) ==
    << UnitLine(index) >> \o (IF big THEN << BulkLine >> ELSE <<>>)

\* what the sandbox emits for cell index with the given outcome
CellEmits(index, total, outcome, printed, file, start_index) ==
    LET before == << Ev("progress", "", "", Percent(index - 1, total)) >>
        after == << Ev("progress", "", "", Percent(index, total)) >>
    IN CASE outcome = "timeout" -> before
         [] outcome = "raise" ->
              before \o LogLines(printed \o << UnitErrorLine(index) >>)
                     \o PendingEvents(file, start_index)
         [] OTHER ->
              before \o LogLines(printed) \o PendingEvents(file, start_index) \o after

\* how execute_cell ends for a cell that needs d minutes and raises or not
\* at its end: nbclient times the cell out once it has run for timeout
CellOutcome(d, raises, timeout) ==
    IF d > timeout THEN "timeout" ELSE IF raises THEN "raise" ELSE "ok"

\* one iteration of the loop over nb.cells. A cell that raises gives
\* CellExecutionError; a cell that exceeds the kernel timeout gives nbclient's
\* CellTimeoutError, a TimeoutError, which passes the except clause of the
\* loop and is caught in _run_plan by except asyncio.TimeoutError.
SbExecuteCell ==
    /\ pc = "awaiting" /\ sbpc = "cells" /\ cellIndex <= nUnits
    /\ \E d \in DurationChoices, raises \in BOOLEAN, big \in BulkChoices(cellIndex),
          written \in UnitEventChoices, wm \in BOOLEAN :
         LET timeout == CellTimeoutMinutes(RunTimeoutMinutes(budget))
             outcome == CellOutcome(d, raises, timeout)
             total == IF nUnits > 1 THEN nUnits ELSE 1
             file == eventsFile \o written
             printed == Printed(cellIndex, big)
             raws == CellEmits(cellIndex, total, outcome, printed, file,
                               processed_events)
         IN /\ \E drop \in Drops(raws) : EmitAll(raws, drop)
            /\ needed' = needed + d
            /\ eventsFile' = file
            /\ metricsFile' = (metricsFile \/ wm)
            /\ logs' = CASE outcome = "timeout" -> logs
                         [] outcome = "raise" ->
                              logs \o printed \o << UnitErrorLine(cellIndex) >>
                         [] OTHER -> logs \o printed
            /\ processed_events' =
                 IF outcome # "timeout" /\ ~Raises(raws) THEN Len(file)
                 ELSE processed_events
            /\ CASE outcome = "timeout" ->
                      /\ exc' = "TimeoutError"
                      /\ excText' = "cell timed out"
                      /\ pc' = "handler" /\ sbpc' = "raised"
                      /\ UNCHANGED cellIndex
                 [] outcome # "timeout" /\ Raises(raws) ->
                      /\ exc' = "Exception"
                      /\ excText' = "ValidationError"
                      /\ pc' = "handler" /\ sbpc' = "raised"
                      /\ UNCHANGED cellIndex
                 [] outcome = "raise" /\ ~Raises(raws) ->
                      /\ exc' = "NotebookExecutionError"
                      /\ excText' = CellErrorText(cellIndex)
                      /\ pc' = "handler" /\ sbpc' = "raised"
                      /\ UNCHANGED cellIndex
                 [] OTHER ->
                      /\ cellIndex' = cellIndex + 1
                      /\ UNCHANGED <<pc, exc, excText, sbpc>>
    /\ UNCHANGED <<inputVars, truncVars, run_series, concVars, response,
                   logsBlob,
                   cuda_visible, escaped, statusLog, stored, curQueue,
                   closes, result, subs>>

MetricsMissing_Never == FALSE

\* not metrics_path.exists()
MetricsMissing == ~metricsFile

MetricsErrorText == "metrics.json not produced by notebook"

\* after the loop: metrics required, last flush, the three artifacts, the
\* size caps. The cells write no logs.txt, and the lines of events.jsonl stay
\* below MAX_EVENTS_SIZE, so that text is returned as it is.
SbCollect ==
    /\ pc = "awaiting" /\ sbpc = "cells" /\ cellIndex > nUnits
    /\ IF MetricsMissing
       THEN /\ exc' = "NotebookExecutionError"
            /\ excText' = MetricsErrorText
            /\ pc' = "handler" /\ sbpc' = "raised"
            /\ UNCHANGED <<captured_logs, history, queues, run_events, faults,
                           processed_events, result>>
       ELSE LET logs_text == JoinLines(logs)
                raws == (IF eventsFile = <<>> THEN <<>>
                         ELSE PendingEvents(eventsFile, processed_events))
                        \o TruncationWarning(logs_text, MAX_LOGS_SIZE, RUN_ARTIFACT_LOG)
            IN /\ \E drop \in Drops(raws) : EmitAll(raws, drop)
               /\ IF Raises(raws)
                  THEN /\ exc' = "Exception"
                       /\ excText' = "ValidationError"
                       /\ pc' = "handler" /\ sbpc' = "raised"
                       /\ UNCHANGED <<processed_events, result>>
                  ELSE /\ processed_events' =
                            IF eventsFile = <<>> THEN processed_events
                            ELSE Len(eventsFile)
                       /\ result' = [metrics_text |-> TRUE,
                                     events_text |-> eventsFile,
                                     logs_text |->
                                         truncate_if_needed(logs_text, MAX_LOGS_SIZE)]
                       /\ pc' = "persist" /\ sbpc' = "returned"
                       /\ UNCHANGED <<exc, excText>>
    /\ UNCHANGED <<inputVars, truncVars, run_series, concVars, response,
                   logsBlob, needed,
                   cuda_visible, escaped, statusLog, stored, curQueue,
                   closes, cellIndex, logs, eventsFile, metricsFile, subs>>


\* ------------------------------------------- _run_plan after the sandbox
PersistCalls_MetricsOnly(res) == << RUN_ARTIFACT_METRICS >>

\* the store_text calls of _persist_artifacts, in order
PersistCalls(res) ==
    << RUN_ARTIFACT_METRICS >>
    \o (IF res.events_text # <<>> THEN << RUN_ARTIFACT_EVENTS >> ELSE <<>>)
    \o << RUN_ARTIFACT_LOG >>

\* _persist_artifacts: call failAt raises (0: none does), those before it wrote
PersistArtifacts ==
    /\ pc = "persist"
    /\ \E failAt \in 0..Len(PersistCalls(result)) :
         IF failAt = 0
         THEN /\ stored' = stored \o PersistCalls(result)
              /\ logsBlob' = result.logs_text
              /\ pc' = "mark_succeeded"
              /\ UNCHANGED <<exc, excText, faults>>
         ELSE /\ MayRaise
              /\ stored' = stored \o SubSeq(PersistCalls(result), 1, failAt - 1)
              /\ UNCHANGED logsBlob
              /\ faults' = faults + 1
              /\ exc' = "Exception"
              /\ excText' = "store_text failed"
              /\ pc' = "handler"
    /\ UNCHANGED <<inputVars, truncVars, run_series, concVars, response, needed,
                   cuda_visible, escaped, dbVars, captured_logs,
                   busVars, sbVars, subs>>

\* db.update_run(status=succeeded, completed_at)
MarkSucceeded ==
    /\ pc = "mark_succeeded"
    /\ \E ok \in Outcomes :
         /\ statusLog' = UpdateRun(statusLog, RUN_STATUS_COMPLETED, ok)
         /\ IF ok
            THEN /\ pc' = "emit_complete"
                 /\ UNCHANGED <<exc, excText, faults>>
            ELSE /\ faults' = faults + 1
                 /\ exc' = "Exception"
                 /\ excText' = "update_run failed"
                 /\ pc' = "handler"
    /\ UNCHANGED <<inputVars, truncVars, run_series, concVars, response,
                   logsBlob, needed,
                   cuda_visible, escaped, run_events, stored,
                   captured_logs, busVars, sbVars, subs>>

CompleteEvents ==
    << Ev("stage_update", RUN_STAGE_COMPLETE, "", 0), Ev("progress", "", "", 100) >>

EmitComplete ==
    /\ pc = "emit_complete"
    /\ \E drop \in Drops(CompleteEvents) : EmitAll(CompleteEvents, drop)
    /\ pc' = "close"
    /\ UNCHANGED <<inputVars, truncVars, run_series, concVars, response,
                   logsBlob, needed,
                   cuda_visible, exc, excText, escaped, statusLog,
                   stored, curQueue, closes, sbVars, subs>>

\* the error event of the except clause that catches e
ErrorEvent(e, text) ==
    CASE e = "TimeoutError" ->
           Ev("error", "Run exceeded allotted time", RUN_ERROR_TIMEOUT, 0)
      [] e = "GPURequestedError" -> Ev("error", text, RUN_ERROR_GPU_REQUESTED, 0)
      [] e = "NotebookExecutionError" -> Ev("error", text, RUN_ERROR_FAILED, 0)
      [] OTHER -> Ev("error", "Unexpected run failure", RUN_ERROR_FAILED, 0)

HandlerEvents(e, text) ==
    << Ev("stage_update", RUN_STAGE_ERROR, "", 0), ErrorEvent(e, text) >>

\* the head of each except clause: stage_update(run_error), error
EmitFailure ==
    /\ pc = "handler"
    /\ \E drop \in Drops(HandlerEvents(exc, excText)) :
         EmitAll(HandlerEvents(exc, excText), drop)
    /\ pc' = "mark_failed"
    /\ UNCHANGED <<inputVars, truncVars, run_series, concVars, response,
                   logsBlob, needed,
                   cuda_visible, exc, excText, escaped, statusLog,
                   stored, curQueue, closes, sbVars, subs>>

\* db.update_run(status=failed, completed_at); a raise leaves the except clause
MarkFailed ==
    /\ pc = "mark_failed"
    /\ \E ok \in Outcomes :
         /\ statusLog' = UpdateRun(statusLog, RUN_STATUS_FAILED, ok)
         /\ IF ok
            THEN /\ pc' = "store_logs"
                 /\ UNCHANGED <<escaped, faults>>
            ELSE /\ faults' = faults + 1
                 /\ escaped' = TRUE
                 /\ pc' = "close"
    /\ UNCHANGED <<inputVars, truncVars, run_series, concVars, response,
                   logsBlob, needed,
                   cuda_visible, exc, excText, run_events, stored,
                   captured_logs, busVars, sbVars, subs>>

\* storage.store_text(runs/<id>/logs.txt, captured_logs)
StorePartialLogs ==
    /\ pc = "store_logs"
    /\ \E ok \in Outcomes :
         IF ok
         THEN /\ stored' = Append(stored, RUN_ARTIFACT_LOG)
              /\ logsBlob' = JoinLines(captured_logs)
              /\ UNCHANGED <<escaped, faults>>
         ELSE /\ faults' = faults + 1
              /\ escaped' = TRUE
              /\ UNCHANGED <<stored, logsBlob>>
    /\ pc' = "close"
    /\ UNCHANGED <<inputVars, truncVars, run_series, concVars, response, needed,
                   cuda_visible, exc, excText, dbVars, captured_logs,
                   busVars, sbVars, subs>>

CloseChannel_Skipped ==
    /\ pc = "close"
    /\ pc' = IF escaped THEN "crashed" ELSE "done"
    /\ UNCHANGED <<inputVars, truncVars, run_series, concVars, response,
                   logsBlob, needed,
                   cuda_visible, exc, excText, escaped, faults, dbVars,
                   stored, captured_logs, busVars, sbVars, subs>>

\* finally: manager.close(run_id), the last statement of the task
CloseChannel ==
    /\ pc = "close"
    /\ queues' = CloseQueues(queues, curQueue)
    /\ curQueue' = 0
    /\ closes' = closes + 1
    /\ pc' = IF escaped THEN "crashed" ELSE "done"
    /\ UNCHANGED <<inputVars, truncVars, run_series, concVars, response,
                   logsBlob, needed,
                   cuda_visible, exc, excText, escaped, faults, dbVars,
                   stored, captured_logs, history, sbVars, subs>>

\* ---------------------------------------------------------- specification
\* budget_minutes of PlanPolicy is an integer of 1..20
BudgetChoices == {1, 2}

\* numeric libraries the interpreter can import: none, or numpy and torch
LibChoices == { {}, {"numpy", "torch"} }

Init ==
    /\ plan_found \in BOOLEAN
    /\ plan_valid \in BOOLEAN
    /\ cuda_visible \in {"", "-1", "0"}
    /\ libs \in LibChoices
    /\ nUnits \in 0..MaxUnits
    /\ budget \in BudgetChoices
    /\ pc = "idle"
    /\ exc = "none"
    /\ excText = ""
    /\ escaped = FALSE
    /\ faults = 0
    /\ statusLog = <<>>
    /\ run_events = <<>>
    /\ stored = <<>>
    /\ response = NoResponse
    /\ conc = [r \in Runs |-> IdleRun]
    /\ rng = 0
    /\ tmpdirs = 0
    /\ captured_logs = <<>>
    /\ history = <<>>
    /\ queues = <<>>
    /\ curQueue = 0
    /\ closes = 0
    /\ sbpc = "idle"
    /\ cellIndex = 0
    /\ logs = <<>>
    /\ eventsFile = <<>>
    /\ processed_events = 0
    /\ metricsFile = FALSE
    /\ result = NoResult
    /\ subs = [s \in Subs |-> IdleSub]
    /\ run_series = <<>>
    /\ logsBlob = <<>>
    /\ needed = 0
    /\ arg_text = <<>>
    /\ arg_max_size = 0
    /\ ret_text = <<>>

Next ==
    \/ StartRun
    \/ RunPlanBegin
    \/ MarkRunning
    \/ EmitStart
    \/ Download
    \/ SbEnforceCpuOnly
    \/ SbSetupSeeds
    \/ SbExecuteCell
    \/ SbCollect
    \/ PersistArtifacts
    \/ MarkSucceeded
    \/ EmitComplete
    \/ EmitFailure
    \/ MarkFailed
    \/ StorePartialLogs
    \/ CloseChannel

Spec == Init /\ [][Next]_vars

TypeOK ==
    /\ response \in {NoResponse, NotFoundResponse, AcceptedResponse, RaisedResponse}
    /\ pc \in {"idle", "rejected", "insert_failed", "scheduled", "mark_running",
               "emit_start", "download", "awaiting", "persist", "mark_succeeded",
               "emit_complete", "handler", "mark_failed", "store_logs", "close",
               "done", "crashed"}
    /\ faults \in 0..MaxFaults
    /\ curQueue \in 0..Len(queues)


\* ------------------------------------------------- the bus and its clients
\* payloads the producer publishes in BusSpec
BusEvents == { Ev("log_line", "a", "", 0), Ev("progress", "", "", 50) }

\* start_run, for a plan that resolves: run_stream_manager.register(run_id)
\* before the task is created
ProducerRegister ==
    /\ pc = "idle" /\ plan_found
    /\ queues' = RegisterQueues
    /\ curQueue' = RegisterCur
    /\ pc' = "awaiting"
    /\ UNCHANGED <<inputVars, truncVars, run_series, concVars, response,
                   logsBlob, needed,
                   cuda_visible, exc, excText, escaped, faults, dbVars,
                   stored, captured_logs, history, closes, sbVars, subs>>

\* _emit: manager.publish(run_id, event, validated)
ProducerPublish(e) ==
    /\ pc = "awaiting"
    /\ Len(history) < MaxEvents
    /\ history' = PublishHistory(history, <<e>>)
    /\ queues' = PublishQueues(queues, curQueue, <<e>>)
    /\ UNCHANGED <<inputVars, truncVars, run_series, concVars, response,
                   logsBlob, needed,
                   cuda_visible, taskVars, faults, dbVars, stored,
                   captured_logs, curQueue, closes, sbVars, subs>>

\* _run_plan: manager.close(run_id)
ProducerClose ==
    /\ pc = "awaiting"
    /\ queues' = CloseQueues(queues, curQueue)
    /\ curQueue' = 0
    /\ closes' = closes + 1
    /\ pc' = "done"
    /\ UNCHANGED <<inputVars, truncVars, run_series, concVars, response,
                   logsBlob, needed,
                   cuda_visible, exc, excText, escaped, faults, dbVars,
                   stored, captured_logs, history, sbVars, subs>>

\* stream_run_events: register(run_id), then hand stream(run_id) to the
\* response; the id of a run is known only once start_run has returned it,
\* an id no run uses can be asked for at any time
SubConnect(s) ==
    /\ pc # "idle" \/ ~plan_found
    /\ subs[s].pc = "idle"
    /\ queues' = RegisterQueues
    /\ curQueue' = RegisterCur
    /\ subs' = [subs EXCEPT ![s].pc = "connected", ![s].late = (closes > 0)]
    /\ UNCHANGED <<inputVars, truncVars, run_series, concVars, response,
                   logsBlob, needed,
                   cuda_visible, taskVars, faults, dbVars, stored,
                   captured_logs, history, closes, sbVars>>

\* after the history loop of stream: queue = self._queues.get(run_id)
AfterHistory(sub) ==
    IF curQueue = 0 THEN [sub EXCEPT !.pc = "done"]
    ELSE [sub EXCEPT !.pc = "waiting", !.q = curQueue]

\* stream, first resumption: copy the history, yield its first item
SubStart(s) ==
    /\ subs[s].pc = "connected"
    /\ subs' = [subs EXCEPT ![s] =
         IF history = <<>> THEN AfterHistory([@ EXCEPT !.snap = history])
         ELSE [@ EXCEPT !.snap = history, !.pos = 1, !.pc = "replay",
                        !.received = Append(@, history[1])]]
    /\ UNCHANGED <<inputVars, truncVars, run_series, concVars, response,
                   logsBlob, needed,
                   cuda_visible, taskVars, faults, dbVars, stored,
                   captured_logs, busVars, sbVars>>

\* stream, history loop: yield the next item of the copy, or leave the loop
SubReplay(s) ==
    /\ subs[s].pc = "replay"
    /\ subs' = [subs EXCEPT ![s] =
         IF @.pos < Len(@.snap)
         THEN [@ EXCEPT !.pos = @ + 1, !.received = Append(@, subs[s].snap[subs[s].pos + 1])]
         ELSE AfterHistory(@)]
    /\ UNCHANGED <<inputVars, truncVars, run_series, concVars, response,
                   logsBlob, needed,
                   cuda_visible, taskVars, faults, dbVars, stored,
                   captured_logs, busVars, sbVars>>

\* stream, live loop: item = await queue.get(); None ends the stream
SubGet(s) ==
    /\ subs[s].pc = "waiting"
    /\ queues[subs[s].q] # <<>>
    /\ LET item == Head(queues[subs[s].q])
       IN subs' = [subs EXCEPT ![s] =
            IF item = None THEN [@ EXCEPT !.pc = "done"]
            ELSE [@ EXCEPT !.received = Append(@, item)]]
    /\ queues' = [queues EXCEPT ![subs[s].q] = Tail(@)]
    /\ UNCHANGED <<inputVars, truncVars, run_series, concVars, response,
                   logsBlob, needed,
                   cuda_visible, taskVars, faults, dbVars, stored,
                   captured_logs, history, curQueue, closes, sbVars>>

BusInit ==
    /\ plan_found \in BOOLEAN
    /\ plan_valid = TRUE
    /\ cuda_visible = ""
    /\ libs = {}
    /\ nUnits = 0
    /\ budget = 1
    /\ pc = "idle"
    /\ exc = "none"
    /\ excText = ""
    /\ escaped = FALSE
    /\ faults = 0
    /\ statusLog = <<>>
    /\ run_events = <<>>
    /\ stored = <<>>
    /\ response = NoResponse
    /\ conc = [r \in Runs |-> IdleRun]
    /\ rng = 0
    /\ tmpdirs = 0
    /\ captured_logs = <<>>
    /\ history = <<>>
    /\ queues = <<>>
    /\ curQueue = 0
    /\ closes = 0
    /\ sbpc = "idle"
    /\ cellIndex = 0
    /\ logs = <<>>
    /\ eventsFile = <<>>
    /\ processed_events = 0
    /\ metricsFile = FALSE
    /\ result = NoResult
    /\ subs = [s \in Subs |-> IdleSub]
    /\ run_series = <<>>
    /\ logsBlob = <<>>
    /\ needed = 0
    /\ arg_text = <<>>
    /\ arg_max_size = 0
    /\ ret_text = <<>>

BusNext ==
    \/ ProducerRegister
    \/ \E e \in BusEvents : ProducerPublish(e)
    \/ ProducerClose
    \/ \E s \in Subs : SubConnect(s)
    \/ \E s \in Subs : SubStart(s)
    \/ \E s \in Subs : SubReplay(s)
    \/ \E s \in Subs : SubGet(s)

BusSpec == BusInit /\ [][BusNext]_vars


\* ------------------------------------------------- the size cap on its own
\* characters of one, two and three bytes in UTF-8
TruncChars == { <<"a", 1>>, <<"U+00E9", 2>>, <<"U+20AC", 3>> }

TruncRuns == { Run(cw[1], cw[2], n) : cw \in TruncChars, n \in {1, 8, 50} }

\* texts of one or two runs, 1 to 300 bytes long
TruncTexts == { <<r>> : r \in TruncRuns } \cup (TruncRuns \X TruncRuns)

\* ceilings below, at and above the size of the marker
TruncCaps == {10, 15, 16, 20}

\* one call _truncate_if_needed(text, max_size, label, emit), emit appending
\* to history
Truncate ==
    /\ pc = "idle"
    /\ ret_text' = truncate_if_needed(arg_text, arg_max_size)
    /\ history' = history
                   \o TruncationWarning(arg_text, arg_max_size, RUN_ARTIFACT_LOG)
    /\ pc' = "done"
    /\ UNCHANGED <<inputVars, arg_text, arg_max_size, run_series, concVars, response,
                   logsBlob, needed,
                   cuda_visible, exc, excText, escaped, faults, dbVars, stored,
                   captured_logs, queues, curQueue, closes, sbVars, subs>>

TruncInit ==
    /\ arg_text \in TruncTexts
    /\ arg_max_size \in TruncCaps
    /\ ret_text = <<>>
    /\ plan_found = TRUE
    /\ plan_valid = TRUE
    /\ cuda_visible = ""
    /\ libs = {}
    /\ nUnits = 0
    /\ budget = 1
    /\ pc = "idle"
    /\ exc = "none"
    /\ excText = ""
    /\ escaped = FALSE
    /\ faults = 0
    /\ statusLog = <<>>
    /\ run_events = <<>>
    /\ run_series = <<>>
    /\ stored = <<>>
    /\ response = NoResponse
    /\ conc = [r \in Runs |-> IdleRun]
    /\ rng = 0
    /\ tmpdirs = 0
    /\ logsBlob = <<>>
    /\ captured_logs = <<>>
    /\ history = <<>>
    /\ queues = <<>>
    /\ curQueue = 0
    /\ closes = 0
    /\ sbpc = "idle"
    /\ cellIndex = 0
    /\ logs = <<>>
    /\ eventsFile = <<>>
    /\ processed_events = 0
    /\ metricsFile = FALSE
    /\ result = NoResult
    /\ needed = 0
    /\ subs = [s \in Subs |-> IdleSub]

TruncNext == Truncate

TruncSpec == TruncInit /\ [][TruncNext]_vars


\* ------------------------------------------------- two runs at the same time
\* Each run's _run_plan awaits execute_notebook, which hands _execute_sync to
\* a worker thread of the one server process: the random module's generator
\* and os.environ are that process's, whichever thread touches them.
ConcFrame ==
    UNCHANGED <<inputVars, truncVars, run_series, response, logsBlob, needed,
                taskVars, faults, dbVars, stored, captured_logs, busVars,
                sbVars, subs>>

\* await execute_notebook(...): asyncio.to_thread(_execute_sync, ...)
ConcExecuteNotebook(r) ==
    /\ conc[r].pc = "idle"
    /\ conc' = [conc EXCEPT ![r].pc = "enforce_cpu", ![r].calls = @ + 1]
    /\ UNCHANGED <<cuda_visible, rng, tmpdirs>>
    /\ ConcFrame

\* _enforce_cpu_only in the thread of run r
ConcEnforceCpuOnly(r) ==
    /\ conc[r].pc = "enforce_cpu"
    /\ IF GpuRequested
       THEN /\ conc' = [conc EXCEPT ![r].pc = "raised"]
            /\ UNCHANGED cuda_visible
       ELSE /\ cuda_visible' = "-1"
            /\ conc' = [conc EXCEPT ![r].pc = "seeds"]
    /\ UNCHANGED <<rng, tmpdirs>>
    /\ ConcFrame

\* _setup_deterministic_seeds in the thread of run r: random.seed(seed)
ConcSetupSeeds(r) ==
    /\ conc[r].pc = "seeds"
    /\ rng' = conc[r].seed
    /\ conc' = [conc EXCEPT ![r].pc = "tmpdir"]
    /\ UNCHANGED <<cuda_visible, tmpdirs>>
    /\ ConcFrame

\* with TemporaryDirectory() as tmpdir: a directory no other call was given
ConcTemporaryDirectory(r) ==
    /\ conc[r].pc = "tmpdir"
    /\ tmpdirs' = tmpdirs + 1
    /\ conc' = [conc EXCEPT ![r].pc = "cells", ![r].dir = tmpdirs + 1,
                            ![r].cell = 1]
    /\ UNCHANGED <<cuda_visible, rng>>
    /\ ConcFrame

\* one iteration of the loop over nb.cells in the thread of run r
ConcExecuteCell(r) ==
    /\ conc[r].pc = "cells" /\ conc[r].cell <= nUnits
    /\ conc' = [conc EXCEPT ![r].cell = @ + 1]
    /\ UNCHANGED <<cuda_visible, rng, tmpdirs>>
    /\ ConcFrame

\* the loop is over: the directory is removed and the result returned
ConcReturn(r) ==
    /\ conc[r].pc = "cells" /\ conc[r].cell > nUnits
    /\ conc' = [conc EXCEPT ![r].pc = "returned"]
    /\ UNCHANGED <<cuda_visible, rng, tmpdirs>>
    /\ ConcFrame

ConcInit ==
    /\ conc \in { c \in [Runs -> { [IdleRun EXCEPT !.seed = s] : s \in SeedChoices }] :
                    \A r1, r2 \in Runs : r1 # r2 => c[r1].seed # c[r2].seed }
    /\ rng = 0
    /\ tmpdirs = 0
    /\ cuda_visible \in {"", "-1", "0"}
    /\ nUnits \in 1..MaxUnits
    /\ plan_found = TRUE
    /\ plan_valid = TRUE
    /\ libs = {}
    /\ budget = 1
    /\ pc = "idle"
    /\ exc = "none"
    /\ excText = ""
    /\ escaped = FALSE
    /\ faults = 0
    /\ statusLog = <<>>
    /\ run_events = <<>>
    /\ run_series = <<>>
    /\ stored = <<>>
    /\ response = NoResponse
    /\ logsBlob = <<>>
    /\ captured_logs = <<>>
    /\ history = <<>>
    /\ queues = <<>>
    /\ curQueue = 0
    /\ closes = 0
    /\ sbpc = "idle"
    /\ cellIndex = 0
    /\ logs = <<>>
    /\ eventsFile = <<>>
    /\ processed_events = 0
    /\ metricsFile = FALSE
    /\ result = NoResult
    /\ needed = 0
    /\ subs = [s \in Subs |-> IdleSub]
    /\ arg_text = <<>>
    /\ arg_max_size = 0
    /\ ret_text = <<>>

ConcNext ==
    \E r \in Runs :
        \/ ConcExecuteNotebook(r)
        \/ ConcEnforceCpuOnly(r)
        \/ ConcSetupSeeds(r)
        \/ ConcTemporaryDirectory(r)
        \/ ConcExecuteCell(r)
        \/ ConcReturn(r)

ConcSpec == ConcInit /\ [][ConcNext]_vars


\* ------------------------------------- publishing from the worker thread
\* _execute_sync runs in a worker thread (asyncio.to_thread) and calls _emit,
\* hence publish and queue.put_nowait, there; stream runs on the event loop.
\* asyncio.Queue is not thread-safe: get() tests empty() and only then
\* appends its getter to the waiters put_nowait wakes, and a put_nowait of
\* the other thread can fall between the two. One subscriber, the first.
ThreadFrame ==
    UNCHANGED <<inputVars, truncVars, run_series, concVars, response,
                logsBlob, needed, cuda_visible, exc, excText, escaped, faults,
                dbVars, stored, captured_logs, cellIndex, logs, eventsFile,
                processed_events, metricsFile, result>>

\* put_nowait: _wakeup_next resolves the getter of a subscriber awaiting one
WakeGetter(ss) ==
    [s \in Subs |-> IF ss[s].pc = "suspended" THEN [ss[s] EXCEPT !.pc = "woken"]
                    ELSE ss[s]]

\* _emit in the worker thread: manager.publish(run_id, event, validated)
WorkerPublish(e) ==
    /\ pc = "awaiting" /\ sbpc = "cells"
    /\ Len(history) < MaxEvents
    /\ history' = PublishHistory(history, <<e>>)
    /\ queues' = PublishQueues(queues, curQueue, <<e>>)
    /\ subs' = WakeGetter(subs)
    /\ UNCHANGED <<pc, sbpc, curQueue, closes>>
    /\ ThreadFrame

\* _execute_sync returns; _run_plan resumes on the event loop
WorkerReturn ==
    /\ pc = "awaiting" /\ sbpc = "cells"
    /\ sbpc' = "returned"
    /\ UNCHANGED <<pc, history, queues, curQueue, closes, subs>>
    /\ ThreadFrame

\* _run_plan on the event loop: manager.close(run_id); the loop is not
\* inside a subscriber's get() at that time
LoopClose ==
    /\ pc = "awaiting" /\ sbpc = "returned"
    /\ subs[1].pc # "registering"
    /\ queues' = CloseQueues(queues, curQueue)
    /\ curQueue' = 0
    /\ closes' = closes + 1
    /\ subs' = WakeGetter(subs)
    /\ pc' = "done"
    /\ UNCHANGED <<sbpc, history>>
    /\ ThreadFrame

\* stream_run_events and the history loop of stream: the copy of the
\* history is replayed, then queue = self._queues.get(run_id)
StreamReplay ==
    /\ pc = "awaiting"
    /\ subs[1].pc = "idle"
    /\ subs' = [subs EXCEPT ![1] =
         AfterHistory([@ EXCEPT !.snap = history, !.pos = Len(history),
                                !.received = history])]
    /\ UNCHANGED <<pc, sbpc, history, queues, curQueue, closes>>
    /\ ThreadFrame

\* queue.get(), the test `while self.empty()`: an item is taken at once,
\* else a getter is about to be appended
GetTestEmpty ==
    /\ subs[1].pc \in {"waiting", "woken"}
    /\ IF queues[subs[1].q] # <<>>
       THEN LET item == Head(queues[subs[1].q])
            IN /\ subs' = [subs EXCEPT ![1] =
                    IF item = None THEN [@ EXCEPT !.pc = "done"]
                    ELSE [@ EXCEPT !.pc = "waiting", !.received = Append(@, item)]]
               /\ queues' = [queues EXCEPT ![subs[1].q] = Tail(@)]
       ELSE /\ subs' = [subs EXCEPT ![1].pc = "registering"]
            /\ UNCHANGED queues
    /\ UNCHANGED <<pc, sbpc, history, curQueue, closes>>
    /\ ThreadFrame

\* queue.get(): self._getters.append(getter); await getter
GetAppendGetter ==
    /\ subs[1].pc = "registering"
    /\ subs' = [subs EXCEPT ![1].pc = "suspended"]
    /\ UNCHANGED <<pc, sbpc, history, queues, curQueue, closes>>
    /\ ThreadFrame

ThreadInit ==
    /\ pc = "awaiting"
    /\ sbpc = "cells"
    /\ history = <<>>
    /\ queues = << <<>> >>
    /\ curQueue = 1
    /\ closes = 0
    /\ subs = [s \in Subs |-> IdleSub]
    /\ plan_found = TRUE
    /\ plan_valid = TRUE
    /\ cuda_visible = "-1"
    /\ libs = {}
    /\ nUnits = 1
    /\ budget = 1
    /\ exc = "none"
    /\ excText = ""
    /\ escaped = FALSE
    /\ faults = 0
    /\ statusLog = <<RUN_STATUS_PENDING, RUN_STATUS_RUNNING>>
    /\ run_events = <<>>
    /\ run_series = <<>>
    /\ stored = <<>>
    /\ response = AcceptedResponse
    /\ conc = [r \in Runs |-> IdleRun]
    /\ rng = 0
    /\ tmpdirs = 0
    /\ logsBlob = <<>>
    /\ captured_logs = <<>>
    /\ cellIndex = 1
    /\ logs = <<>>
    /\ eventsFile = <<>>
    /\ processed_events = 0
    /\ metricsFile = FALSE
    /\ result = NoResult
    /\ needed = 0
    /\ arg_text = <<>>
    /\ arg_max_size = 0
    /\ ret_text = <<>>

ThreadNext ==
    \/ \E e \in BusEvents : WorkerPublish(e)
    \/ WorkerReturn
    \/ LoopClose
    \/ StreamReplay
    \/ GetTestEmpty
    \/ GetAppendGetter

ThreadSpec == ThreadInit /\ [][ThreadNext]_vars


\* ------------------------------------------- the flush of events.jsonl alone
\* A line of events.jsonl is a record: kind says what json.loads makes of it,
\* ev is the event of a JSON object with a string type.
EventLine(e) == [kind |-> "event", ev |-> e]
SkippedLine(k) == [kind |-> k, ev |-> Ev("", "", "", 0)]

\* what a unit may append: a valid event, an event whose payload does not
\* validate, an event of a kind without a validator, a blank line, a line
\* that is no JSON, a JSON value that is no object, an object without a
\* string type
FlushLines ==
    { EventLine(Ev("metric_update", "accuracy", "", 1)),
      EventLine(Ev("progress", "", "", 150)),
      EventLine(Ev("checkpoint", "saved", "", 0)),
      SkippedLine("blank"), SkippedLine("non_json"),
      SkippedLine("non_object"), SkippedLine("untyped") }

\* the loop of _flush_notebook_events over raw_lines[start_index:]: the
\* (event_type, payload) pairs it hands to emit, in file order
FlushRaws(lines, start_index) ==
    LET rest == SelectSeq(SubSeq(lines, start_index + 1, Len(lines)),
                          LAMBDA l : l.kind = "event")
    IN [i \in 1..Len(rest) |-> rest[i].ev]

FlushFrame ==
    UNCHANGED <<inputVars, truncVars, run_series, concVars, response,
                logsBlob, needed, cuda_visible, taskVars, faults, dbVars,
                stored, captured_logs, queues, curQueue, closes, logs,
                metricsFile, result, subs>>

\* a unit appends one line to events.jsonl while it runs
UnitAppends(line) ==
    /\ sbpc = "cells" /\ cellIndex <= nUnits
    /\ Len(eventsFile) < MaxLines
    /\ eventsFile' = Append(eventsFile, line)
    /\ UNCHANGED <<history, processed_events, sbpc, cellIndex>>
    /\ FlushFrame

\* processed_events = _flush_notebook_events(events_path, emit,
\* processed_events), after a unit or, once the units are over, at the end;
\* an emit that raises leaves the flush and _execute_sync
FlushCall ==
    /\ sbpc = "cells"
    /\ LET raws == FlushRaws(eventsFile, processed_events)
       IN /\ history' = history \o Emitted(raws)
          /\ IF Raises(raws)
             THEN /\ sbpc' = "raised"
                  /\ UNCHANGED <<processed_events, cellIndex>>
             ELSE /\ processed_events' = Len(eventsFile)
                  /\ IF cellIndex <= nUnits
                     THEN cellIndex' = cellIndex + 1 /\ UNCHANGED sbpc
                     ELSE sbpc' = "returned" /\ UNCHANGED cellIndex
    /\ UNCHANGED eventsFile
    /\ FlushFrame

FlushInit ==
    /\ sbpc = "cells"
    /\ cellIndex = 1
    /\ nUnits \in 1..MaxUnits
    /\ eventsFile = <<>>
    /\ processed_events = 0
    /\ history = <<>>
    /\ plan_found = TRUE
    /\ plan_valid = TRUE
    /\ cuda_visible = "-1"
    /\ libs = {}
    /\ budget = 1
    /\ pc = "awaiting"
    /\ exc = "none"
    /\ excText = ""
    /\ escaped = FALSE
    /\ faults = 0
    /\ statusLog = <<RUN_STATUS_PENDING, RUN_STATUS_RUNNING>>
    /\ run_events = <<>>
    /\ run_series = <<>>
    /\ stored = <<>>
    /\ response = AcceptedResponse
    /\ conc = [r \in Runs |-> IdleRun]
    /\ rng = 0
    /\ tmpdirs = 0
    /\ logsBlob = <<>>
    /\ captured_logs = <<>>
    /\ queues = <<>>
    /\ curQueue = 0
    /\ closes = 0
    /\ logs = <<>>
    /\ metricsFile = FALSE
    /\ result = NoResult
    /\ needed = 0
    /\ subs = [s \in Subs |-> IdleSub]
    /\ arg_text = <<>>
    /\ arg_max_size = 0
    /\ ret_text = <<>>

FlushNext ==
    \/ \E line \in FlushLines : UnitAppends(line)
    \/ FlushCall

FlushSpec == FlushInit /\ [][FlushNext]_vars


\* ------------------------------------------------------------------ claims
RECURSIVE IsSubseq(_, _)
IsSubseq(s, t) ==
    IF s = <<>> THEN TRUE
    ELSE IF t = <<>> THEN FALSE
    ELSE IF Head(s) = Head(t) THEN IsSubseq(Tail(s), Tail(t))
    ELSE IsSubseq(s, Tail(t))

IsPrefix(s, t) == Len(s) <= Len(t) /\ s = SubSeq(t, 1, Len(s))

Count(seq, P(_)) == Cardinality({i \in 1..Len(seq) : P(seq[i])})

IsError(e) == e.event = "error"

\* the run has ended without reaching run_complete
RunFailed == Ended /\ (~plan_valid \/ exc # "none")

\* cell k raised: its error line is in the logs of the sandbox
UnitRaised(k) == \E i \in 1..Len(logs) : logs[i] = UnitErrorLine(k)

\* every other subscriber has stayed away
OnlySub(s) == \A t \in Subs \ {s} : subs[t].pc = "idle"

C2_FailureShowsErrorPair ==
    RunFailed =>
        /\ Len(history) >= 2
        /\ history[Len(history) - 1] = Ev("stage_update", RUN_STAGE_ERROR, "", 0)
        /\ IsError(history[Len(history)])
        /\ history[Len(history)].code # ""
        /\ Count(history, IsError) = 1
        /\ curQueue = 0 /\ closes = 1

\* C3: the task closes the channel exactly once, the close is its last step
\* in every terminal case, and the history never grows after the close.
C3_CloseOnceLast ==
    /\ [](closes <= 1 /\ (Ended <=> closes = 1))
    /\ [][closes' # closes => Ended']_vars
    /\ [][closes >= 1 => (history' = history /\ queues' = queues)]_vars

\* C3 witness: a succeeded run, closed after its last two events
C3_Witness ==
    /\ pc = "done" /\ closes = 1 /\ Status = RUN_STATUS_COMPLETED
    /\ Len(history) >= 2
    /\ history[Len(history)] = Ev("progress", "", "", 100)
    /\ queues[1][Len(queues[1])] = None

\* C4: a subscriber that connects after the close receives the whole history
\* in order and its stream then ends.
C4_LateSubscriberEnds ==
    \A s \in Subs :
        (subs[s].late /\ OnlySub(s) /\ subs[s].pc \notin {"connected", "replay"})
            => (subs[s].pc = "done" /\ subs[s].received = history)

\* C5: a subscriber that was attached before the first publication and whose
\* stream has ended has received every event of the run, in order, however
\* many subscribers were attached.
C5_EverySubscriberGetsAll ==
    \A s \in Subs :
        (subs[s].pc = "done" /\ ~subs[s].late /\ subs[s].snap = <<>>)
            => subs[s].received = history

\* C6: a single subscriber that attaches in mid-run, with k >= 1 events
\* already published, receives each event once: what it has received is
\* always a prefix of the history, and the whole history when it stops.
C6_ExactlyOnce ==
    \A s \in Subs :
        (OnlySub(s) /\ ~subs[s].late /\ Len(subs[s].snap) >= 1)
            => /\ IsPrefix(subs[s].received, history)
               /\ subs[s].pc = "done" => subs[s].received = history

\* C7: after close, a consumer still suspended on the closed queue always has
\* an item left to receive (an event or the end-of-stream sentinel), so it is
\* never left waiting on a queue nothing will be put on.
C7_CloseWakesAllWaiters ==
    \A s \in Subs :
        (subs[s].pc = "waiting" /\ subs[s].q # curQueue)
            => queues[subs[s].q] # <<>>

\* C8: a run whose plan does not validate ends with status failed, was never
\* set to running, and the sandbox was not invoked.
C8_InvalidPlanFails ==
    (Ended /\ ~plan_valid) =>
        /\ Status = RUN_STATUS_FAILED
        /\ \A i \in 1..Len(statusLog) : statusLog[i] # RUN_STATUS_RUNNING
        /\ sbpc = "idle"

\* C9: if cell k raises (no store call raising), no later cell runs or emits,
\* the output of cell k is emitted as log_line events and the structured
\* events written so far are flushed, and the run ends failed with exactly
\* one error event, with the execution-error code and the error text.
C9_UnitErrorStopsRun ==
    \A k \in 1..MaxUnits :
        (Ended /\ UnitRaised(k) /\ faults = 0) =>
            /\ cellIndex = k
            /\ \A i \in 1..Len(history), j \in (k + 1)..MaxUnits :
                   history[i] # Ev("log_line", UnitLine(j), "", 0)
            /\ \E i \in 1..Len(history) :
                   history[i] = Ev("log_line", UnitLine(k), "", 0)
            /\ processed_events = Len(eventsFile)
            /\ Status = RUN_STATUS_FAILED
            /\ Count(history, IsError) = 1
            /\ \E i \in 1..Len(history) :
                   history[i] = Ev("error", CellErrorText(k), RUN_ERROR_FAILED, 0)

\* C10: metrics are required for success: when the loop over the cells ends
\* and no metrics.json exists the sandbox raises the execution error and
\* returns no result, the run (no store call raising) ends failed, and status
\* succeeded is never written before metrics.json is stored.
C10_MetricsRequired ==
    /\ Status = RUN_STATUS_COMPLETED
         => \E i \in 1..Len(stored) : stored[i] = RUN_ARTIFACT_METRICS
    /\ (sbpc \in {"raised", "returned"} /\ cellIndex > nUnits /\ ~metricsFile)
         => /\ exc = "NotebookExecutionError" /\ excText = MetricsErrorText
            /\ result = NoResult
    /\ (Ended /\ cellIndex > nUnits /\ ~metricsFile /\ faults = 0)
         => Status = RUN_STATUS_FAILED

\* C10 witness: both cells completed, none wrote metrics, the run ended failed
C10_Witness ==
    /\ Ended /\ nUnits >= 1 /\ cellIndex > nUnits /\ ~metricsFile
    /\ excText = MetricsErrorText
    /\ Status = RUN_STATUS_FAILED
    /\ stored = <<RUN_ARTIFACT_LOG>>

\* the deadline of the run, in minutes
Deadline == CellTimeoutMinutes(RunTimeoutMinutes(budget))

\* the deadline passes before the sandbox call is over: its cells need more
\* time than the deadline, whether or not one of them was cut short
DeadlineElapsed == needed > Deadline

\* the sandbox call is over, by a return or by a raise
SandboxOver == sbpc \in {"raised", "returned"}

\* the lines of a text made by JoinLines
BlobLines(blob) ==
    LET runs == SelectSeq(blob, LAMBDA r : r # Newline)
    IN [i \in 1..Len(runs) |-> runs[i].c]

LogsStored == \E i \in 1..Len(stored) : stored[i] = RUN_ARTIFACT_LOG

\* C11: when the sandbox call has lasted longer than the deadline (no store
\* call raising), the run ends with status failed and one error event with
\* the code E_RUN_TIMEOUT, and the stored logs.txt holds the message of every
\* log_line event emitted, in emission order.
C11_DeadlineElapsedFails ==
    (Ended /\ SandboxOver /\ DeadlineElapsed /\ faults = 0) =>
        /\ Status = RUN_STATUS_FAILED
        /\ Count(history, IsError) = 1
        /\ history[Len(history)].event = "error"
        /\ history[Len(history)].code = RUN_ERROR_TIMEOUT
        /\ LogsStored
        /\ BlobLines(logsBlob) = LogMessages(history)

Has(seq, x) == \E i \in 1..Len(seq) : seq[i] = x

\* C12: once _enforce_cpu_only has run, the GPU-requested error has been
\* raised exactly when CUDA_VISIBLE_DEVICES is neither empty nor -1. It is
\* raised before seeding and before any cell runs: no cell has run or
\* printed, and the history holds the two start events of the orchestrator
\* and, after them, only its two failure events, so the sandbox has emitted
\* nothing. The run (no store call raising) ends failed, its only error event
\* the last one, with the code E_GPU_REQUESTED.
C12_GpuRequestedStopsEarly ==
    /\ sbpc \notin {"idle", "enforce_cpu"}
         => (exc = "GPURequestedError" <=> cuda_visible \notin {"", "-1"})
    /\ exc = "GPURequestedError"
         => /\ cellIndex = 0 /\ needed = 0 /\ logs = <<>> /\ eventsFile = <<>>
            /\ captured_logs = <<>>
            /\ Len(history) \in {2, 4}
            /\ IsPrefix(history,
                   << Ev("stage_update", RUN_STAGE_START, "", 0),
                      Ev("progress", "", "", 0),
                      Ev("stage_update", RUN_STAGE_ERROR, "", 0),
                      Ev("error", excText, RUN_ERROR_GPU_REQUESTED, 0) >>)
    /\ (Ended /\ exc = "GPURequestedError" /\ faults = 0)
         => /\ Status = RUN_STATUS_FAILED
            /\ Count(history, IsError) = 1
            /\ history[Len(history)].event = "error"
            /\ history[Len(history)].code = RUN_ERROR_GPU_REQUESTED

\* C12 witness: CUDA_VISIBLE_DEVICES=0, the run ended failed after four events
C12_Witness ==
    /\ Ended /\ cuda_visible = "0" /\ exc = "GPURequestedError" /\ faults = 0
    /\ Status = RUN_STATUS_FAILED /\ Len(history) = 4 /\ cellIndex = 0
    /\ stored = << RUN_ARTIFACT_LOG >> /\ logsBlob = <<>>

\* C13: on the success path the artifacts are stored before status succeeded
\* is written, the status is written before stage_update(run_complete) and
\* progress(100) are emitted, and the channel is closed after them: status
\* succeeded implies metrics.json and logs.txt (and a non-empty events.jsonl)
\* are stored, run_complete in the history implies status succeeded and is
\* followed by progress(100) and nothing else, and the history of a closed,
\* succeeded run begins with run_start, progress(0) and ends with
\* run_complete, progress(100).
C13_SuccessOrder ==
    /\ Status = RUN_STATUS_COMPLETED
         => /\ Has(stored, RUN_ARTIFACT_METRICS)
            /\ Has(stored, RUN_ARTIFACT_LOG)
            /\ result.events_text # <<>> => Has(stored, RUN_ARTIFACT_EVENTS)
    /\ \A i \in 1..Len(history) :
         history[i] = Ev("stage_update", RUN_STAGE_COMPLETE, "", 0)
            => /\ Status = RUN_STATUS_COMPLETED
               /\ i = Len(history) - 1
               /\ history[Len(history)] = Ev("progress", "", "", 100)
    /\ (closes = 1 /\ Status = RUN_STATUS_COMPLETED)
         => /\ Len(history) >= 4
            /\ history[1] = Ev("stage_update", RUN_STAGE_START, "", 0)
            /\ history[2] = Ev("progress", "", "", 0)
            /\ history[Len(history) - 1] = Ev("stage_update", RUN_STAGE_COMPLETE, "", 0)
            /\ history[Len(history)] = Ev("progress", "", "", 100)
    /\ (pc = "done" /\ sbpc = "returned" /\ exc = "none")
         => Status = RUN_STATUS_COMPLETED

\* C13 witness: a run of two cells ended succeeded with its three artifacts
C13_Witness ==
    /\ pc = "done" /\ closes = 1 /\ nUnits = 2 /\ Status = RUN_STATUS_COMPLETED
    /\ stored = << RUN_ARTIFACT_METRICS, RUN_ARTIFACT_EVENTS, RUN_ARTIFACT_LOG >>
    /\ history[Len(history) - 1] = Ev("stage_update", RUN_STAGE_COMPLETE, "", 0)

EndsWithMarker(t) == Len(t) >= 1 /\ t[Len(t)] = TRUNCATION_MARKER[1]

\* C14: for every text longer than max_size bytes and every ceiling max_size,
\* also one below the size of the marker, _truncate_if_needed returns exactly
\* max_size bytes, the marker included, ending with the marker.
C14_TruncatesToExactCap ==
    (pc = "done" /\ ByteLen(arg_text) > arg_max_size)
        => /\ ByteLen(ret_text) = arg_max_size
           /\ EndsWithMarker(ret_text)

\* C15: after any run the stored logs.txt is at most MAX_LOGS_SIZE bytes,
\* whether it was stored on the success path or by a failure handler.
C15_StoredLogsWithinCap ==
    LogsStored => ByteLen(logsBlob) <= MAX_LOGS_SIZE

\* C16: the code of the error event identifies the kind of the failure: the
\* timeout gives E_RUN_TIMEOUT, the GPU request E_GPU_REQUESTED, a cell that
\* raises or missing metrics E_RUN_FAILED, and any other exception a code of
\* its own, different from these three.
C16_CodeIdentifiesKind ==
    \A i \in 1..Len(history) :
        (IsError(history[i]) /\ exc # "none") =>
            CASE exc = "TimeoutError" -> history[i].code = RUN_ERROR_TIMEOUT
              [] exc = "GPURequestedError" ->
                   history[i].code = RUN_ERROR_GPU_REQUESTED
              [] exc = "NotebookExecutionError" ->
                   history[i].code = RUN_ERROR_FAILED
              [] OTHER ->
                   history[i].code \notin
                       {RUN_ERROR_TIMEOUT, RUN_ERROR_GPU_REQUESTED, RUN_ERROR_FAILED}

\* C17: when a store call raises while a failure is being cleaned up
\* (update_run(failed) or the store_text of the partial logs), the channel is
\* still closed, the status of the run still becomes failed, and no
\* exception leaves the task.
C17_CleanupFaultsSwallowed ==
    (Ended /\ exc # "none") =>
        /\ closes = 1 /\ curQueue = 0
        /\ Status = RUN_STATUS_FAILED
        /\ ~escaped /\ pc = "done"

\* C18: a run (no store call raising) in which no cell raises or times out,
\* metrics.json exists and no GPU is requested runs all its cells and ends
\* succeeded, even if a cell wrote a structured event of a recognized kind
\* that fails validation.
C18_InvalidEventNotFatal ==
    (Ended /\ plan_valid /\ faults = 0 /\ metricsFile
       /\ exc \notin {"TimeoutError", "GPURequestedError", "NotebookExecutionError"})
        => /\ cellIndex > nUnits
           /\ Status = RUN_STATUS_COMPLETED

IsMetricUpdate(e) == e.event = "metric_update"

\* C19: every metric_update event the orchestrator has forwarded has written
\* one row (metric, step, value) to the time series, with steps 1, 2, ...: the
\* series has as many rows as the history has metric_update events.
C19_MetricUpdatesWriteSeries ==
    /\ Len(run_series) = Count(history, IsMetricUpdate)
    /\ \A i \in 1..Len(run_series) : run_series[i].step = i

\* C20: the deadline bounds the whole sandbox call: when the call has lasted
\* longer than the deadline, also with no cell alone longer than it, the
\* timeout was raised, and the run (no store call raising) ends failed with
\* the code E_RUN_TIMEOUT.
C20_DeadlineBoundsWholeCall ==
    /\ (SandboxOver /\ DeadlineElapsed) => exc = "TimeoutError"
    /\ (Ended /\ SandboxOver /\ DeadlineElapsed /\ faults = 0)
         => /\ Status = RUN_STATUS_FAILED
            /\ Has(history, Ev("error", "Run exceeded allotted time",
                               RUN_ERROR_TIMEOUT, 0))

\* C21: for a run id no run ever used, the stream that stream_run_events
\* hands out yields nothing and ends: no subscriber is left waiting on a
\* queue, and a subscriber whose stream has started has received nothing and
\* is done.
C21_UnknownRunStreamEnds ==
    ~plan_found =>
        \A s \in Subs :
            /\ subs[s].received = <<>>
            /\ subs[s].pc \in {"idle", "connected", "done"}

\* C22: run artifacts are write-once: whatever the outcome and whichever
\* store call raises, each of metrics.json, events.jsonl and logs.txt is
\* written to the blob store at most once.
C22_ArtifactsWrittenOnce ==
    \A k \in {RUN_ARTIFACT_METRICS, RUN_ARTIFACT_EVENTS, RUN_ARTIFACT_LOG} :
        Cardinality({i \in 1..Len(stored) : stored[i] = k}) <= 1

\* C23: start_run for a plan id that does not resolve answers 404 with the
\* code E_PLAN_NOT_FOUND and has no other effect: no run row, no channel, no
\* task. For a plan that resolves, once the run id has been returned the run
\* has been inserted with status pending and the channel is registered.
C23_StartRunFrame ==
    /\ (~plan_found /\ pc # "idle") =>
          /\ response = NotFoundResponse
          /\ response.status_code = 404 /\ response.body = "E_PLAN_NOT_FOUND"
          /\ statusLog = <<>> /\ run_events = <<>> /\ stored = <<>>
          /\ queues = <<>> /\ curQueue = 0 /\ history = <<>>
          /\ pc = "rejected"
    /\ response = NotFoundResponse => ~plan_found
    /\ response = AcceptedResponse =>
          /\ plan_found
          /\ statusLog # <<>> /\ statusLog[1] = RUN_STATUS_PENDING
          /\ queues # <<>>
          /\ pc = "scheduled" => statusLog = <<RUN_STATUS_PENDING>> /\ curQueue # 0
    /\ (plan_found /\ pc \notin {"idle", "insert_failed"}) =>
          response = AcceptedResponse

C23_Witness == ~plan_found /\ pc = "rejected" /\ response = NotFoundResponse

\* C24: a text whose UTF-8 length is at or below the ceiling is returned
\* unchanged and no warning is emitted; one warning log_line naming the
\* artifact and the ceiling is emitted exactly when the text is longer than
\* the ceiling, and then the returned text differs from the given one.
C24_UnchangedAtOrBelowCap ==
    pc = "done" =>
        IF ByteLen(arg_text) <= arg_max_size
        THEN ret_text = arg_text /\ history = <<>>
        ELSE /\ ret_text # arg_text
             /\ history = << Ev("log_line",
                                "Warning: logs.txt exceeded "
                                    \o ToString(arg_max_size)
                                    \o " bytes and was truncated", "", 0) >>

C24_Witness ==
    /\ pc = "done"
    /\ ByteLen(arg_text) = arg_max_size
    /\ ret_text = arg_text /\ history = <<>>

\* C25: every validated event is published to the bus and appended to the
\* durable event log in emission order, and an append that raises is
\* swallowed without preventing or reordering the publication: the durable
\* event log is always an order-preserving subsequence of the bus history,
\* it misses at most one event per store call that raised, and it equals the
\* history when no store call raised.
C25_DurableLogFollowsHistory ==
    /\ run_events = history \/ IsSubseq(run_events, history)
    /\ Len(history) - Len(run_events) <= faults
    /\ faults = 0 => run_events = history

C25_Witness ==
    /\ sbpc # "idle"
    /\ Len(history) >= 4
    /\ Len(run_events) = Len(history) - 1
    /\ run_events[1] = history[1]
    /\ run_events[Len(run_events)] = history[Len(history)]

\* what the loop over the cells has emitted of its own for units 1..k
RECURSIVE UnitTrail(_, _)
UnitTrail(k, total) ==
    IF k = 0 THEN <<>>
    ELSE UnitTrail(k - 1, total)
         \o << Ev("progress", "", "", Percent(k - 1, total)),
               Ev("log_line", UnitLine(k), "", 0),
               Ev("progress", "", "", Percent(k, total)) >>

\* percents of the progress events on the bus; the only progress line a unit
\* writes here is an invalid one, which is never emitted, so these are the
\* percents _run_plan and the loop over the cells computed themselves
ProgressPercents ==
    LET ps == SelectSeq(history, LAMBDA e : e.event = "progress")
    IN [i \in 1..Len(ps) |-> ps[i].num]

SandboxEmitted == SubSeq(history, Len(StartEvents) + 1, Len(history))

\* C27: for a succeeded run the events artifact is stored and holds, in
\* emission order, everything the sandbox emitted during the run: its own
\* stage_update, progress and log_line events as well as the events the
\* units wrote.
C27_EventsArtifactHoldsAllEmitted ==
    (Status = RUN_STATUS_COMPLETED /\ pc = "emit_complete" /\ faults = 0) =>
        /\ Has(stored, RUN_ARTIFACT_EVENTS)
        /\ IsSubseq(SandboxEmitted, result.events_text)

\* a run's sandbox call is between its own seeding and its return
Seeded(r) == conc[r].pc \in {"tmpdir", "cells"}

\* C28: two runs executing at the same time share no mutable state: while a
\* run is between its seeding and its return the seeded generator holds the
\* seed that run set, no two runs have the same working directory, and each
\* run has invoked the sandbox at most once.
C28_RunsShareNothing ==
    /\ \A r \in Runs : Seeded(r) => rng = conc[r].seed
    /\ \A r1, r2 \in Runs :
           (r1 # r2 /\ conc[r1].dir # 0) => conc[r1].dir # conc[r2].dir
    /\ \A r \in Runs : conc[r].calls <= 1

\* C29: with events published from the worker thread while the subscriber
\* waits on the event loop, no wake-up is lost and the replay is intact: a
\* subscriber suspended in queue.get() is never left asleep on a queue that
\* holds an item (so it never needs a later publish or close to be woken),
\* and the history it replays is a prefix of the run's history.
C29_NoLostWakeup ==
    /\ subs[1].pc = "suspended" => queues[subs[1].q] = <<>>
    /\ IsPrefix(subs[1].snap, history)

\* the events of the well-formed lines among the first k lines of the file
WellFormedEvents(k) ==
    LET raws == FlushRaws(SubSeq(eventsFile, 1, k), 0)
    IN [i \in 1..Len(raws) |-> validate_event(raws[i])]

\* C30: across the flushes of one sandbox execution, with units that only
\* append lines, every well-formed line (a JSON object with a string type)
\* is emitted exactly once and in file order and the other lines are
\* skipped: what has been emitted is exactly the events of the well-formed
\* lines up to the cursor, the cursor never passes the end of the file, and
\* once the sandbox call is over every well-formed line has been emitted.
C30_WellFormedLinesEmittedOnce ==
    /\ processed_events <= Len(eventsFile)
    /\ sbpc = "cells" => history = WellFormedEvents(processed_events)
    /\ sbpc \in {"returned", "raised"} =>
          history = WellFormedEvents(Len(eventsFile))

====
